---- MODULE Spec2Model ----
(***************************************************************************)
(* Payload catalog of the SQL-AI security tool: the XML definition parser, *)
(* the technique inference, the catalog index builder, the in-memory       *)
(* PayloadDB with its retrieval views, the template renderer and the       *)
(* candidate selector.                                                     *)
(*                                                                         *)
(* A Python str is a sequence of one-character strings, so that strip,     *)
(* lower, replace, splitlines, substring tests and the regular-expression  *)
(* signatures are computed character by character as Python computes them. *)
(***************************************************************************)
EXTENDS Integers, Sequences, FiniteSets, TLC

\* ------------------------------------------------------------------ text

\* The characters of the model in code-point order (the order Python's
\* sorted() and string comparison use).
CodePoints ==
  << "\t", "\n", " ", "#", "(", ")", "-", ".",
     "0", "1", "2", "3", "4", "5", "6", "7", "8", "9", ":", ";", "=",
     "A", "B", "C", "D", "E", "F", "G", "H", "I", "J", "K", "L", "M",
     "N", "O", "P", "Q", "R", "S", "T", "U", "V", "W", "X", "Y", "Z",
     "[", "]", "_",
     "a", "b", "c", "d", "e", "f", "g", "h", "i", "j", "k", "l", "m",
     "n", "o", "p", "q", "r", "s", "t", "u", "v", "w", "x", "y", "z" >>

Range(s) == {s[i] : i \in 1..Len(s)}

Chars == Range(CodePoints)

\* ord(c), up to the spacing of the code points
OrdTable == [c \in Chars |-> CHOOSE i \in 1..Len(CodePoints) : CodePoints[i] = c]
ord(c) == OrdTable[c]

UpperCase == SubSeq(CodePoints, ord("A"), ord("Z"))
LowerCase == SubSeq(CodePoints, ord("a"), ord("z"))
DigitChars == SubSeq(CodePoints, ord("0"), ord("9"))

\* str.isspace of one character; also the class \s of the re module
SpaceChars == {" ", "\t", "\n"}
isspace(c) == c \in SpaceChars

\* the class \w of the re module
WordChars == Range(UpperCase) \cup Range(LowerCase) \cup Range(DigitChars) \cup {"_"}
IsWordChar(c) == c \in WordChars

LowerTable ==
  [c \in Chars |-> IF c \in Range(UpperCase) THEN LowerCase[ord(c) - ord("A") + 1] ELSE c]
lowerChar(c) == LowerTable[c]

\* str.lower
lower(s) == [i \in 1..Len(s) |-> lowerChar(s[i])]

\* str.strip
RECURSIVE lstrip(_)
lstrip(s) == IF s # <<>> /\ isspace(s[1]) THEN lstrip(Tail(s)) ELSE s

RECURSIVE rstrip(_)
rstrip(s) ==
  IF s # <<>> /\ isspace(s[Len(s)]) THEN rstrip(SubSeq(s, 1, Len(s) - 1)) ELSE s

strip(s) == rstrip(lstrip(s))

\* str.isdigit
DigitSet == Range(DigitChars)
isdigit(s) == s # <<>> /\ \A i \in 1..Len(s) : s[i] \in DigitSet

\* int(s) of a digit string
RECURSIVE int(_)
int(s) ==
  IF s = <<>> THEN 0
  ELSE 10 * int(SubSeq(s, 1, Len(s) - 1)) + (ord(s[Len(s)]) - ord("0"))

\* str(n) of a non-negative integer
RECURSIVE str(_)
str(n) ==
  IF n < 10 THEN <<DigitChars[n + 1]>>
  ELSE str(n \div 10) \o <<DigitChars[(n % 10) + 1]>>

\* s.startswith(p), s.endswith(p), `sub in s`
startswith(s, p) == Len(p) <= Len(s) /\ SubSeq(s, 1, Len(p)) = p
endswith(s, p) == Len(p) <= Len(s) /\ SubSeq(s, Len(s) - Len(p) + 1, Len(s)) = p
contains(s, sub) ==
  \E i \in 0..(Len(s) - Len(sub)) : SubSeq(s, i + 1, i + Len(sub)) = sub

\* a variant of replace that stops after the first occurrence
RECURSIVE replaceFirst(_, _, _)
replaceFirst(s, old, new) ==
  IF Len(s) < Len(old) \/ s = <<>> THEN s
  ELSE IF SubSeq(s, 1, Len(old)) = old
       THEN new \o SubSeq(s, Len(old) + 1, Len(s))
       ELSE <<s[1]>> \o replaceFirst(Tail(s), old, new)

\* str.replace(old, new): every non-overlapping occurrence, left to right
RECURSIVE replace(_, _, _)
replace(s, old, new) ==
  IF Len(s) < Len(old) \/ s = <<>> THEN s
  ELSE IF startswith(s, old)
       THEN new \o replace(SubSeq(s, Len(old) + 1, Len(s)), old, new)
       ELSE <<s[1]>> \o replace(Tail(s), old, new)

\* str.splitlines: a line break ends a line; no empty last line is produced
RECURSIVE splitlinesFrom(_, _)
splitlinesFrom(s, cur) ==
  IF s = <<>> THEN (IF cur = <<>> THEN <<>> ELSE <<cur>>)
  ELSE IF s[1] = "\n" THEN <<cur>> \o splitlinesFrom(Tail(s), <<>>)
       ELSE splitlinesFrom(Tail(s), Append(cur, s[1]))

splitlines(s) == splitlinesFrom(s, <<>>)

\* sep.join(parts)
RECURSIVE join(_, _)
join(sep, parts) ==
  IF parts = <<>> THEN <<>>
  ELSE IF Len(parts) = 1 THEN parts[1]
       ELSE parts[1] \o sep \o join(sep, Tail(parts))

\* re.sub(r"\s{2,}", " ", s): every maximal run of two or more whitespace
\* characters becomes one space; a single whitespace character stays as it is
RECURSIVE SpaceRun(_)
SpaceRun(s) == IF s # <<>> /\ isspace(s[1]) THEN 1 + SpaceRun(Tail(s)) ELSE 0

RECURSIVE collapseWhitespace(_)
collapseWhitespace(s) ==
  IF s = <<>> THEN <<>>
  ELSE IF SpaceRun(s) >= 2
       THEN <<" ">> \o collapseWhitespace(SubSeq(s, SpaceRun(s) + 1, Len(s)))
       ELSE <<s[1]>> \o collapseWhitespace(Tail(s))

\* ------------------------------------------------------------- rendering

\* A context value is a Python str or a Python int; strOf is str(v).
StrVal(s) == [kind |-> "str", s |-> s, n |-> 0]
IntVal(n) == [kind |-> "int", s |-> <<>>, n |-> n]
strOf(v) == IF v.kind = "int" THEN str(v.n) ELSE v.s

\* f"[{k}]"
Placeholder(k) == <<"[">> \o k \o <<"]">>

RANDNUM == <<"R", "A", "N", "D", "N", "U", "M">>
RANDSTR == <<"R", "A", "N", "D", "S", "T", "R">>

\* A context is a dict: its (key, value) pairs in insertion order, keys distinct.
Keys(ctx) == {ctx[i].k : i \in 1..Len(ctx)}

\* for k, v in ctx.items(): out = out.replace(f"[{k}]", str(v))
RECURSIVE substituteContext(_, _)
substituteContext(out, ctx) ==
  IF ctx = <<>> THEN out
  ELSE substituteContext(replace(out, Placeholder(ctx[1].k), strOf(ctx[1].v)), Tail(ctx))

\* a variant of randint with the lower end at 0
randintFromZero(a, b) == 0..b

\* random.randint(a, b): any integer n with a <= n <= b
randint(a, b) == a..b

\* uuid.uuid4().hex[:8]: eight hexadecimal digits. The outcomes drawn here
\* are the eight-fold repetitions of one hexadecimal digit.
HexDigits == Range(DigitChars) \cup {"a", "b", "c", "d", "e", "f"}
uuid4hex8 == {[i \in 1..8 |-> h] : h \in HexDigits}

needsRandnum(out, ctx) == contains(out, Placeholder(RANDNUM)) /\ RANDNUM \notin Keys(ctx)
fillRandnum(out, ctx, n) ==
  IF needsRandnum(out, ctx) THEN replace(out, Placeholder(RANDNUM), str(n)) ELSE out

needsRandstr(out, ctx) == contains(out, Placeholder(RANDSTR)) /\ RANDSTR \notin Keys(ctx)
fillRandstr(out, ctx, h) ==
  IF needsRandstr(out, ctx) THEN replace(out, Placeholder(RANDSTR), h) ELSE out

\* out = "\n".join(line.strip() for line in out.splitlines())
\* out = re.sub(r"\s{2,}", " ", out)
stripLines(lines) == [i \in 1..Len(lines) |-> strip(lines[i])]
normalizeWhitespace(out) == collapseWhitespace(join(<<"\n">>, stripLines(splitlines(out))))

\* PayloadDB.render with the two random draws n and h made explicit
render(template, ctx, n, h) ==
  IF template = <<>> THEN template
  ELSE normalizeWhitespace(
         fillRandstr(fillRandnum(substituteContext(template, ctx), ctx, n), ctx, h))

\* ------------------------------------------------ regular expressions

\* The signatures use literals, \b, \s+, \s*, ^ and alternation. A regular
\* expression is a set of alternatives, each a sequence of atoms.
Lit(s) == [i \in 1..Len(s) |-> [t |-> "lit", c |-> s[i]]]
WordBoundary == <<[t |-> "b", c |-> ""]>>
Spaces1 == <<[t |-> "s+", c |-> ""]>>
Spaces0 == <<[t |-> "s*", c |-> ""]>>
LineStart == <<[t |-> "^", c |-> ""]>>

\* \b at offset i of s: exactly one of s[i], s[i+1] is a word character
atWordBoundary(s, i) ==
  (i >= 1 /\ IsWordChar(s[i])) # (i < Len(s) /\ IsWordChar(s[i + 1]))

\* atoms k.. of p match s from offset i on, under re.I | re.M
RECURSIVE matchAt(_, _, _, _)
matchAt(p, k, s, i) ==
  IF k > Len(p) THEN TRUE
  ELSE CASE p[k].t = "lit" ->
              i < Len(s) /\ lowerChar(s[i + 1]) = lowerChar(p[k].c) /\ matchAt(p, k + 1, s, i + 1)
         [] p[k].t = "b" -> atWordBoundary(s, i) /\ matchAt(p, k + 1, s, i)
         [] p[k].t = "^" -> (i = 0 \/ s[i] = "\n") /\ matchAt(p, k + 1, s, i)
         [] p[k].t = "s*" ->
              matchAt(p, k + 1, s, i) \/ (i < Len(s) /\ isspace(s[i + 1]) /\ matchAt(p, k, s, i + 1))
         [] p[k].t = "s+" ->
              i < Len(s) /\ isspace(s[i + 1])
                /\ (matchAt(p, k + 1, s, i + 1) \/ matchAt(p, k, s, i + 1))

\* re.search(pat, s, re.I | re.M)
search(pat, s) == \E alt \in pat : \E i \in 0..Len(s) : matchAt(alt, 1, s, i)

\* ------------------------------------------------------------ constants

xml == <<".", "x", "m", "l">>
boolean_blind == <<"b", "o", "o", "l", "e", "a", "n", "_", "b", "l", "i", "n", "d">>
error_based == <<"e", "r", "r", "o", "r", "_", "b", "a", "s", "e", "d">>
inline_query == <<"i", "n", "l", "i", "n", "e", "_", "q", "u", "e", "r", "y">>
stacked_queries == <<"s", "t", "a", "c", "k", "e", "d", "_", "q", "u", "e", "r", "i", "e", "s">>
time_blind == <<"t", "i", "m", "e", "_", "b", "l", "i", "n", "d">>
union_query == <<"u", "n", "i", "o", "n", "_", "q", "u", "e", "r", "y">>

EXPECTED_XML ==
  << boolean_blind \o xml, error_based \o xml, inline_query \o xml,
     stacked_queries \o xml, time_blind \o xml, union_query \o xml >>

\* The signatures both TECH_KEYWORDS tables share
TimeSignatures ==
  << {WordBoundary \o Lit(<<"S", "L", "E", "E", "P">>) \o WordBoundary},
     {WordBoundary \o Lit(<<"P", "G", "_", "S", "L", "E", "E", "P">>) \o WordBoundary},
     {WordBoundary \o Lit(<<"W", "A", "I", "T", "F", "O", "R">>) \o Spaces1 \o Lit(<<"D", "E", "L", "A", "Y">>) \o WordBoundary},
     {WordBoundary \o Lit(<<"B", "E", "N", "C", "H", "M", "A", "R", "K">>) \o WordBoundary},
     {Lit(<<"[", "S", "L", "E", "E", "P", "T", "I", "M", "E", "]">>)} >>

UnionWordSignatures ==
  << {WordBoundary \o Lit(<<"U", "N", "I", "O", "N">>) \o WordBoundary},
     {WordBoundary \o Lit(<<"C", "O", "N", "C", "A", "T">>) \o WordBoundary},
     {WordBoundary \o Lit(<<"G", "R", "O", "U", "P", "_", "C", "O", "N", "C", "A", "T">>) \o WordBoundary} >>

BooleanSignatures ==
  << {Lit(<<"[", "I", "N", "F", "E", "R", "E", "N", "C", "E", "]">>)},
     {WordBoundary \o Lit(<<"I", "F", "(">>)},
     {WordBoundary \o Lit(<<"E", "L", "T", "(">>)},
     {WordBoundary \o Lit(<<"C", "A", "S", "E">>) \o Spaces1 \o Lit(<<"W", "H", "E", "N">>) \o WordBoundary} >>

StackedSignatures ==
  << {LineStart \o Spaces0 \o Lit(<<";">>)},
     {Lit(<<";", "S", "E", "L", "E", "C", "T">>) \o WordBoundary},
     {Lit(<<";">>) \o Spaces0 \o Lit(<<"S", "E", "L", "E", "C", "T">>)} >>

InlineSignatures ==
  << {Lit(<<"S", "E", "L", "E", "C", "T">>) \o Spaces1 \o Lit(<<"(">>)},
     {WordBoundary \o Lit(<<"I", "N", "L", "I", "N", "E">>) \o WordBoundary} >>

\* TECH_KEYWORDS of core_sql/payloads.py
TECH_KEYWORDS ==
  << [tech |-> time_blind, patterns |-> TimeSignatures],
     [tech |-> union_query,
      patterns |-> UnionWordSignatures \o <<{Lit(<<"D", "E", "L", "I", "M", "I", "T", "E", "R", "_", "S", "T", "A", "R", "T">>)}>>],
     [tech |-> boolean_blind, patterns |-> BooleanSignatures],
     [tech |-> error_based,
      patterns |-> << {Lit(<<"E", "R", "R", "O", "R">>)}, {Lit(<<"C", "A", "S", "T", "(">>)}, {Lit(<<"C", "O", "N", "V", "E", "R", "T", "(">>)},
                      {Lit(<<"J", "S", "O", "N", "_", "K", "E", "Y", "S">>)}, {Lit(<<"O", "R", "A", "-">>)}, {Lit(<<"S", "Q", "L", "S", "T", "A", "T", "E">>)} >>],
     [tech |-> stacked_queries, patterns |-> StackedSignatures],
     [tech |-> inline_query, patterns |-> InlineSignatures] >>

\* TECH_KEYWORDS of core_sql/build_payload_catalog.py
BUILD_TECH_KEYWORDS ==
  << [tech |-> time_blind, patterns |-> TimeSignatures],
     [tech |-> union_query,
      patterns |-> UnionWordSignatures \o <<{Lit(<<"[", "D", "E", "L", "I", "M", "I", "T", "E", "R", "_", "S", "T", "A", "R", "T", "]">>)}>>],
     [tech |-> boolean_blind, patterns |-> BooleanSignatures],
     [tech |-> error_based,
      patterns |-> << { Lit(<<"C", "A", "S", "T", "(">>), Lit(<<"C", "O", "N", "V", "E", "R", "T", "(">>), Lit(<<"J", "S", "O", "N", "_", "K", "E", "Y", "S">>),
                        Lit(<<"O", "R", "A", "-">>), Lit(<<"S", "Q", "L", "S", "T", "A", "T", "E">>), Lit(<<"E", "R", "R", "O", "R">>) } >>],
     [tech |-> stacked_queries, patterns |-> StackedSignatures],
     [tech |-> inline_query, patterns |-> InlineSignatures] >>

\* TECH_KEYWORDS.keys()
TechniqueKeys(table) == {table[i].tech : i \in 1..Len(table)}

\* the loop over TECH_KEYWORDS.items(): the techniques one of whose patterns
\* is found in the content
matchedTechniques(table, content) ==
  {table[i].tech : i \in {j \in 1..Len(table) :
      \E k \in 1..Len(table[j].patterns) : search(table[j].patterns[k], content)}}

\* sorted(list(S)) of a set of strings
RECURSIVE textLess(_, _)
textLess(a, b) ==
  IF b = <<>> THEN FALSE
  ELSE IF a = <<>> THEN TRUE
  ELSE IF a[1] = b[1] THEN textLess(Tail(a), Tail(b))
  ELSE ord(a[1]) < ord(b[1])

RECURSIVE sorted(_)
sorted(S) ==
  IF S = {} THEN <<>>
  ELSE LET m == CHOOSE x \in S : \A y \in S : x = y \/ textLess(x, y)
       IN  <<m>> \o sorted(S \ {m})

\* ------------------------------------------------------- input records

\* Python's None against a value: an optional string and an optional int
None == [some |-> FALSE, val |-> <<>>]
Some(s) == [some |-> TRUE, val |-> s]
NoneInt == [some |-> FALSE, val |-> 0]
SomeInt(n) == [some |-> TRUE, val |-> n]

\* truth value of an optional string: neither None nor ""
truthy(o) == o.some /\ o.val # <<>>

\* A <test> element: the text of each child the parsers read, None where the
\* child is missing or holds no text. payload and comment are children of
\* <request>, grep and time of <response>, dbms and dbms_version of <details>.
TestElement(title, vector, payload, comment, grep, time, dbms, dbms_version, level, risk) ==
  [title |-> title, vector |-> vector, payload |-> payload, comment |-> comment,
   grep |-> grep, time |-> time, dbms |-> dbms, dbms_version |-> dbms_version,
   level |-> level, risk |-> risk]

\* A file of the payload directory: text ET.parse rejects, or a root element
\* with its <test> children in document order.
MalformedFile == [wellformed |-> FALSE, tests |-> <<>>]
XmlFile(tests) == [wellformed |-> TRUE, tests |-> tests]

\* int(x) if x and x.isdigit() else None
parseInt(o) == IF truthy(o) /\ isdigit(o.val) THEN SomeInt(int(o.val)) ELSE NoneInt

\* x.text.strip() if the element has text, else the field stays None
strippedText(o) == IF truthy(o) THEN Some(strip(o.val)) ELSE None

\* the tags of the <request> and <response> children, in the order appended
requestTags(test) ==
  (IF truthy(test.comment) THEN <<<<"c", "o", "m", "m", "e", "n", "t", "_", "t", "o", "k", "e", "n", ":">> \o strip(test.comment.val)>> ELSE <<>>)
  \o (IF truthy(test.time) THEN <<<<"r", "e", "s", "p", "o", "n", "s", "e", "_", "t", "i", "m", "e", "_", "m", "a", "r", "k", "e", "r">>>> ELSE <<>>)

\* " ".join(filter(None, [vector or "", example or ""]))
joinedContent(vector, example) ==
  join(<<" ">>, SelectSeq(<<IF truthy(vector) THEN vector.val ELSE <<>>,
                           IF truthy(example) THEN example.val ELSE <<>> >>,
                         LAMBDA s : s # <<>>))

\* fname.replace(".xml", "")
typeOfFile(fname) == replace(fname, xml, <<>>)

\* ------------------------------------------- build_payload_catalog.py

\* a variant of safetyOf with strict comparisons
safetyOfStrict(risk) ==
  IF risk.some
  THEN IF risk.val < 2 THEN <<"n", "o", "n", "-", "d", "e", "s", "t", "r", "u", "c", "t", "i", "v", "e">>
       ELSE IF risk.val < 4 THEN <<"m", "a", "y", "-", "a", "l", "t", "e", "r", "-", "d", "b">>
       ELSE <<"d", "e", "s", "t", "r", "u", "c", "t", "i", "v", "e">>
  ELSE <<"n", "o", "n", "-", "d", "e", "s", "t", "r", "u", "c", "t", "i", "v", "e">>

\* the safety heuristic of parse_xml_file
safetyOf(risk) ==
  IF risk.some
  THEN IF risk.val <= 2 THEN <<"n", "o", "n", "-", "d", "e", "s", "t", "r", "u", "c", "t", "i", "v", "e">>
       ELSE IF risk.val <= 4 THEN <<"m", "a", "y", "-", "a", "l", "t", "e", "r", "-", "d", "b">>
       ELSE <<"d", "e", "s", "t", "r", "u", "c", "t", "i", "v", "e">>
  ELSE <<"n", "o", "n", "-", "d", "e", "s", "t", "r", "u", "c", "t", "i", "v", "e">>

\* the inferred list of parse_xml_file
buildInferred(content, ptype_hint) ==
  sorted(matchedTechniques(BUILD_TECH_KEYWORDS, content)
         \cup (IF ptype_hint # <<>> THEN {ptype_hint} ELSE {})
         \cup (IF contains(ptype_hint, <<"s", "t", "a", "c", "k", "e", "d">>) THEN {stacked_queries} ELSE {}))

\* the entry parse_xml_file builds from one <test>
buildEntry(test, fname, ptype_hint, id) ==
  LET vector == strippedText(test.vector)
      example == strippedText(test.payload)
      dbms == strippedText(test.dbms)
      risk == parseInt(test.risk)
  IN  [id |-> id,
       title |-> strip(IF test.title.some THEN test.title.val ELSE <<>>),
       type |-> ptype_hint,
       dbms |-> dbms,
       dbms_version |-> strippedText(test.dbms_version),
       vector |-> vector,
       example |-> example,
       grep |-> strippedText(test.grep),
       level |-> parseInt(test.level),
       risk |-> risk,
       source |-> fname,
       tags |-> requestTags(test)
                \o (IF truthy(test.dbms) THEN <<<<"d", "b", "m", "s", ":">> \o strip(test.dbms.val)>> ELSE <<>>),
       inferred |-> buildInferred(joinedContent(vector, example), ptype_hint),
       safety |-> safetyOf(risk)]

\* a variant of keepsEntry that asks whether the fields are set, not whether
\* they are non-empty
keepsEntryIfSet(entry) == entry.vector.some \/ entry.example.some

\* only keep entries with a vector or example
keepsEntry(entry) == truthy(entry.vector) \/ truthy(entry.example)

\* str(uuid.uuid4()): an identifier no other draw returns, here the pair of
\* the pass that draws it (a build or a load) and its ordinal in that pass
uuid4(pass, n) == <<pass[1], pass[2], n>>

\* the identifiers a parse of the file draws: one for every <test>, none when
\* ET.parse raises
drawn(file) == IF file.wellformed THEN Len(file.tests) ELSE 0

\* a variant of parse_xml_file that reads the <test> elements of a file
\* whether or not it is well-formed
parse_xml_file_lenient(file, fname, ptype_hint, pass, n0) ==
  SelectSeq([k \in 1..Len(file.tests) |->
               buildEntry(file.tests[k], fname, ptype_hint, uuid4(pass, n0 + k))],
            keepsEntry)

\* parse_xml_file(path, ptype_hint); n0 identifiers were drawn before it in
\* this pass, and every <test> draws one
parse_xml_file(file, fname, ptype_hint, pass, n0) ==
  IF ~file.wellformed THEN <<>>
  ELSE SelectSeq([k \in 1..Len(file.tests) |->
                    buildEntry(file.tests[k], fname, ptype_hint, uuid4(pass, n0 + k))],
                 keepsEntry)

\* The payload directory is a function from the names of the files in it to
\* the files. The scan order of build_catalog and of PayloadDB.load: the
\* EXPECTED_XML files that exist, in the order of that list, then every other
\* *.xml file in sorted name order.
scanOrder(files) ==
  SelectSeq(EXPECTED_XML, LAMBDA f : f \in DOMAIN files)
  \o sorted({f \in DOMAIN files : endswith(f, xml) /\ f \notin Range(EXPECTED_XML)})

\* entries.extend(parse_xml_file(p, fname.replace(".xml", ""))) over the scan
\* order
RECURSIVE buildEntries(_, _, _, _)
buildEntries(files, names, pass, n0) ==
  IF names = <<>> THEN <<>>
  ELSE parse_xml_file(files[names[1]], names[1], typeOfFile(names[1]), pass, n0)
       \o buildEntries(files, Tail(names), pass, n0 + drawn(files[names[1]]))

\* d.setdefault(key, []).append(id)
appendTo(d, key, id) ==
  IF key \in DOMAIN d THEN [d EXCEPT ![key] = Append(@, id)] ELSE d @@ (key :> <<id>>)

RECURSIVE appendAll(_, _, _)
appendAll(d, keys, id) ==
  IF keys = <<>> THEN d ELSE appendAll(appendTo(d, keys[1], id), Tail(keys), id)

EmptyDict == <<>>

\* the index loop of build_catalog over entries k..
RECURSIVE indexEntries(_, _, _)
indexEntries(entries, k, index) ==
  IF k > Len(entries) THEN index
  ELSE LET e == entries[k]
           t == IF e.type # <<>> THEN e.type ELSE <<"u", "n", "k", "n", "o", "w", "n">>
       IN  indexEntries(entries, k + 1,
             [by_type |-> appendAll(appendTo(index.by_type, t, e.id), e.inferred, e.id),
              by_dbms |-> IF truthy(e.dbms) THEN appendTo(index.by_dbms, e.dbms.val, e.id)
                          ELSE index.by_dbms,
              by_tag |-> appendAll(index.by_tag, e.tags, e.id)])

\* a variant of build_catalog that drops the entries without a vector after
\* the count and the index are taken
build_catalog_refiltered(files, pass, now) ==
  LET entries == buildEntries(files, scanOrder(files), pass, 0)
  IN  [generated_at |-> now,
       count |-> Len(entries),
       entries |-> SelectSeq(entries, LAMBDA e : truthy(e.vector)),
       index |-> indexEntries(entries, 1,
                   [by_type |-> EmptyDict, by_dbms |-> EmptyDict, by_tag |-> EmptyDict])]

\* build_catalog() on the payload directory, at time now
build_catalog(files, pass, now) ==
  LET entries == buildEntries(files, scanOrder(files), pass, 0)
  IN  [generated_at |-> now,
       count |-> Len(entries),
       entries |-> entries,
       index |-> indexEntries(entries, 1,
                   [by_type |-> EmptyDict, by_dbms |-> EmptyDict, by_tag |-> EmptyDict])]

\* ------------------------------------------------------- payloads.py

\* the inferred list of PayloadDB._parse_xml
loadInferred(content, ptype) ==
  sorted(matchedTechniques(TECH_KEYWORDS, content)
         \cup (IF ptype \in TechniqueKeys(TECH_KEYWORDS) THEN {ptype} ELSE {})
         \cup (IF ptype # <<>> /\ contains(ptype, <<"s", "t", "a", "c", "k", "e", "d">>) THEN {stacked_queries} ELSE {}))

\* the entry PayloadDB._parse_xml builds from one <test>
loadEntry(test, fname, ptype, id) ==
  LET vector == strippedText(test.vector)
      example == strippedText(test.payload)
      dbms == strippedText(test.dbms)
  IN  [id |-> id,
       title |-> strip(IF test.title.some THEN test.title.val ELSE <<>>),
       type |-> ptype,
       dbms |-> dbms,
       dbms_version |-> strippedText(test.dbms_version),
       vector |-> vector,
       example |-> example,
       grep |-> strippedText(test.grep),
       level |-> parseInt(test.level),
       risk |-> parseInt(test.risk),
       source |-> fname,
       tags |-> requestTags(test)
                \o (IF truthy(dbms) THEN <<<<"d", "b", "m", "s", ":">> \o dbms.val>> ELSE <<>>),
       inferred |-> loadInferred(joinedContent(vector, example), ptype)]

\* PayloadDB._parse_xml(path, ptype): the entries it appends
parseXml(file, fname, ptype, pass, n0) ==
  IF ~file.wellformed THEN <<>>
  ELSE SelectSeq([k \in 1..Len(file.tests) |->
                    loadEntry(file.tests[k], fname, ptype, uuid4(pass, n0 + k))],
                 keepsEntry)

\* the two loops of PayloadDB.load over the scan order
RECURSIVE loadEntries(_, _, _, _)
loadEntries(files, names, pass, n0) ==
  IF names = <<>> THEN <<>>
  ELSE parseXml(files[names[1]], names[1], typeOfFile(names[1]), pass, n0)
       \o loadEntries(files, Tail(names), pass, n0 + drawn(files[names[1]]))

\* a variant of load without the _loaded guard: every call parses the
\* directory and appends
loadAgain(db, files, pass) ==
  [entries |-> db.entries \o loadEntries(files, scanOrder(files), pass, 0), loaded |-> TRUE]

\* PayloadDB.load(): the object after the call; nothing is done once _loaded
\* is set
load(db, files, pass) ==
  IF db.loaded THEN db
  ELSE [entries |-> db.entries \o loadEntries(files, scanOrder(files), pass, 0),
        loaded |-> TRUE]

\* PayloadDB(payload_dir): the object after __init__, which loads eagerly
PayloadDB(files, pass) == load([entries |-> <<>>, loaded |-> FALSE], files, pass)

\* ---------------------------------------------------- retrieval views

\* res[:limit] if limit else res
firstN(res, limit) == IF limit # 0 THEN SubSeq(res, 1, IF limit < Len(res) THEN limit ELSE Len(res)) ELSE res

\* PayloadDB.all
all(entries) == entries

\* a variant of by_dbms that compares case-sensitively
by_dbms_exact_case(entries, dbms, limit) ==
  firstN(SelectSeq(entries, LAMBDA e : truthy(e.dbms) /\ contains(e.dbms.val, dbms)), limit)

\* PayloadDB.by_dbms(dbms, limit) without a safety filter
by_dbms(entries, dbms, limit) ==
  firstN(SelectSeq(entries,
           LAMBDA e : truthy(e.dbms) /\ contains(lower(e.dbms.val), lower(dbms))), limit)

matchesTechnique(e, technique) == technique = e.type \/ technique \in Range(e.inferred)

\* a variant of by_technique that looks at the declared type only
by_technique_declared(entries, technique, limit) ==
  firstN(SelectSeq(entries, LAMBDA e : technique = e.type), limit)

\* PayloadDB.by_technique(technique, limit)
by_technique(entries, technique, limit) ==
  firstN(SelectSeq(entries, LAMBDA e : matchesTechnique(e, technique)), limit)

\* PayloadDB.types
types(entries) == sorted({entries[i].type : i \in {j \in 1..Len(entries) : entries[j].type # <<>>}})

\* PayloadDB.dbms_list
dbms_list(entries) ==
  sorted({strip(entries[i].dbms.val) : i \in {j \in 1..Len(entries) : truthy(entries[j].dbms)}})

\* PayloadDB.by_tag(tag, limit)
by_tag(entries, tag, limit) ==
  firstN(SelectSeq(entries,
           LAMBDA e : \E k \in 1..Len(e.tags) : startswith(e.tags[k], tag) \/ e.tags[k] = tag),
         limit)

\* PayloadDB.get(entry_id): the first entry with that id, or None
get(entries, entry_id) ==
  LET found == SelectSeq(entries, LAMBDA e : e.id = entry_id)
  IN  IF found # <<>> THEN Some(found[1]) ELSE None

\* PayloadDB.sample(technique, dbms)
sample(entries, technique, dbms) ==
  IF truthy(technique) /\ by_technique(entries, technique.val, 1) # <<>>
  THEN Some(by_technique(entries, technique.val, 1)[1])
  ELSE IF truthy(dbms) /\ by_dbms(entries, dbms.val, 1) # <<>>
       THEN Some(by_dbms(entries, dbms.val, 1)[1])
       ELSE IF entries # <<>> THEN Some(entries[1]) ELSE None

\* --------------------------------------------------------- injector.py

TECH_TO_PTYPE ==
  << [label |-> <<"b", "o", "o", "l", "e", "a", "n">>, ptype |-> boolean_blind],
     [label |-> <<"e", "r", "r", "o", "r">>, ptype |-> error_based],
     [label |-> <<"t", "i", "m", "e">>, ptype |-> time_blind],
     [label |-> <<"u", "n", "i", "o", "n">>, ptype |-> union_query],
     [label |-> <<"s", "t", "a", "c", "k", "e", "d">>, ptype |-> stacked_queries],
     [label |-> <<"i", "n", "l", "i", "n", "e">>, ptype |-> inline_query] >>

\* A vulnerability descriptor: the keys choose_candidates reads, None where
\* the key is missing.
Vuln(technique, type, dbms) == [technique |-> technique, type |-> type, dbms |-> dbms]

\* a variant of techniqueLabel that does not read the "type" key
techniqueLabelNoType(vuln) ==
  IF truthy(vuln.technique) THEN vuln.technique.val ELSE <<"b", "o", "o", "l", "e", "a", "n">>

\* vuln.get("technique") or vuln.get("type") or "boolean"
techniqueLabel(vuln) ==
  IF truthy(vuln.technique) THEN vuln.technique.val
  ELSE IF truthy(vuln.type) THEN vuln.type.val
  ELSE <<"b", "o", "o", "l", "e", "a", "n">>

\* TECH_TO_PTYPE.get(technique, "boolean_blind")
canonicalTechnique(technique) ==
  IF \E i \in 1..Len(TECH_TO_PTYPE) : TECH_TO_PTYPE[i].label = technique
  THEN TECH_TO_PTYPE[CHOOSE i \in 1..Len(TECH_TO_PTYPE) : TECH_TO_PTYPE[i].label = technique].ptype
  ELSE boolean_blind

\* a variant of slice that keeps one element more
sliceInclusive(seq, limit) == SubSeq(seq, 1, IF limit + 1 < Len(seq) THEN limit + 1 ELSE Len(seq))

\* seq[:limit] for limit >= 0
slice(seq, limit) == SubSeq(seq, 1, IF limit < Len(seq) THEN limit ELSE Len(seq))

\* candidates after the dbms+ptype attempt
engineCandidates(entries, vuln, ptype, limit) ==
  IF truthy(vuln.dbms)
  THEN SelectSeq(by_dbms(entries, vuln.dbms.val, limit), LAMBDA c : matchesTechnique(c, ptype))
  ELSE <<>>

\* candidates after the technique-only attempt
techniqueCandidates(entries, vuln, ptype, limit) ==
  LET candidates == engineCandidates(entries, vuln, ptype, limit)
  IN  IF candidates = <<>> THEN by_technique(entries, ptype, limit) ELSE candidates

\* choose_candidates(pdb, vuln, limit)
choose_candidates(entries, vuln, limit) ==
  LET ptype == canonicalTechnique(techniqueLabel(vuln))
      candidates == techniqueCandidates(entries, vuln, ptype, limit)
  IN  slice(IF candidates = <<>> THEN slice(all(entries), limit) ELSE candidates, limit)

\* ----------------------------------------------------- bounds and inputs

MaxFiles == 2        \* files in the payload directory
MaxTests == 2        \* <test> elements in the payload directory
MaxBuilds == 2       \* runs of build_payload_catalog.main
MaxInstances == 2    \* PayloadDB objects created
MaxLimit == 2        \* the limit of choose_candidates
MaxPieces == 4       \* pieces of an enumerated template

BoundedSeq(S, n) == UNION {[1..k -> S] : k \in 0..n}

FileNames == {boolean_blind \o xml, <<"a", "_", "s", "t", "a", "c", "k", "e", "d", ".", "x", "m", "l">>, <<"Z", ".", "x", "m", "l">>}

\* <test> elements of the payload directories
UnionTest ==
  TestElement(Some(<<" ", "u", "n", "i", "o", "n", " ">>), Some(<<" ", "U", "N", "I", "O", "N", " ", "[", "A", "]", " ">>), None, Some(<<"-", "-">>), None, None,
              Some(<<"M", "y", "S", "Q", "L">>), None, Some(<<"1">>), Some(<<"2">>))
SleepTest ==
  TestElement(None, None, Some(<<"s", "l", "e", "e", "p", "(", "5", ")">>), None, Some(<<"o", "k">>), Some(<<"5">>),
              Some(<<" ", "P", "o", "s", "t", "g", "r", "e", "S", "Q", "L", " ">>), Some(<<"9">>), None, Some(<<"3">>))
BlankTest ==
  TestElement(Some(<<"b", "l", "a", "n", "k">>), Some(<<" ", " ">>), None, Some(<<"#">>), None, None,
              Some(<<"M", "y", "S", "Q", "L">>), None, None, Some(<<"5">>))

TestSamples == {UnionTest, SleepTest, BlankTest}

\* a file cut off after a complete <test>: ET.parse raises on it
TruncatedFile == [wellformed |-> FALSE, tests |-> <<UnionTest>>]

FileBodies ==
  {MalformedFile, TruncatedFile} \cup {XmlFile(tests) : tests \in BoundedSeq(TestSamples, MaxTests)}

RECURSIVE SumTests(_, _)
SumTests(files, names) ==
  IF names = {} THEN 0
  ELSE LET f == CHOOSE x \in names : TRUE
       IN  Len(files[f].tests) + SumTests(files, names \ {f})

NoDirectory == [exists |-> FALSE, files |-> <<>>]

Dirs ==
  {NoDirectory}
  \cup {[exists |-> TRUE, files |-> files] :
          files \in {f \in UNION {[S -> FileBodies] :
                                   S \in {T \in SUBSET FileNames : Cardinality(T) <= MaxFiles}} :
                       SumTests(f, DOMAIN f) <= MaxTests}}

\* ---------------------------------------------------------------- state

VARIABLES
  payloadDir,  \* the payload directory: whether it exists, and its files
  catalogs,    \* the catalogs build_payload_catalog.main wrote, the last is OUT_FILE
  heap,        \* the PayloadDB objects created so far
  global_db,   \* _global_db: 0 for None, else the position of the object in heap
  selection,   \* a choose_candidates call and its result
  rendering,   \* a PayloadDB.render call and its result
  parsing,     \* a parse of one file by parse_xml_file or by PayloadDB._parse_xml
  returned     \* the last call of a PayloadDB method or a module function, and its value

vars == <<payloadDir, catalogs, heap, global_db, selection, rendering, parsing, returned>>

IdleSelection ==
  [state |-> "idle", vuln |-> Vuln(None, None, None), limit |-> 0, result |-> <<>>]
IdleRendering ==
  [state |-> "idle", template |-> <<>>, context |-> <<>>, out |-> <<>>, randnum |-> 0]
NoCall == [op |-> "none", obj |-> 0, args |-> <<>>, value |-> <<>>]
IdleParsing ==
  [state |-> "idle", file |-> MalformedFile, fname |-> <<>>, entries |-> <<>>]

\* ------------------------------------------- build_payload_catalog.main

\* main() when the payload directory exists: build the catalog, write OUT_FILE
BuildMain ==
  /\ payloadDir.exists
  /\ Len(catalogs) < MaxBuilds
  /\ catalogs' = Append(catalogs,
                   build_catalog(payloadDir.files, <<"build", Len(catalogs) + 1>>,
                                 Len(catalogs) + 1))
  /\ UNCHANGED <<payloadDir, heap, global_db, selection, rendering, parsing, returned>>

\* main() when it does not: a message, nothing written
BuildMainNoDir ==
  /\ ~payloadDir.exists
  /\ UNCHANGED vars

\* --------------------------------------------------------- load_payloads

\* PayloadDB(payload_dir): os.makedirs(payload_dir, exist_ok=True), then the load
NewPayloadDB ==
  /\ Len(heap) < MaxInstances
  /\ heap' = Append(heap, PayloadDB(payloadDir.files, <<"load", Len(heap) + 1>>))
  /\ global_db' = Len(heap) + 1
  /\ payloadDir' = [payloadDir EXCEPT !.exists = TRUE]

\* load_payloads(payload_dir) with a directory given
LoadPayloadsDir ==
  /\ NewPayloadDB
  /\ UNCHANGED <<catalogs, selection, rendering, parsing, returned>>

\* load_payloads() without one
LoadPayloadsDefault ==
  /\ IF global_db = 0 THEN NewPayloadDB ELSE UNCHANGED <<heap, global_db, payloadDir>>
  /\ UNCHANGED <<catalogs, selection, rendering, parsing, returned>>

Init ==
  /\ payloadDir \in Dirs
  /\ catalogs = <<>>
  /\ returned = NoCall
  /\ heap = <<>>
  /\ global_db = 0
  /\ selection = IdleSelection
  /\ rendering = IdleRendering
  /\ parsing = IdleParsing

Next == BuildMain \/ BuildMainNoDir \/ LoadPayloadsDefault

Spec == Init /\ [][Next]_vars

\* ------------------------------------------------- injector.main: selection

VulnTechniques == {None, Some(<<"u", "n", "i", "o", "n">>), Some(<<"t", "i", "m", "e">>), Some(<<"b", "o", "g", "u", "s">>)}
VulnTypes == {None, Some(<<"t", "i", "m", "e">>)}
VulnEngines == {None, Some(<<"m", "y">>), Some(<<"S", "Q", "L">>), Some(<<"o", "r", "a", "c", "l", "e">>)}
Vulns == {Vuln(t, y, d) : t \in VulnTechniques, y \in VulnTypes, d \in VulnEngines}

\* pdb = load_payloads(payload_dir=...)
InjectorLoad ==
  /\ global_db = 0
  /\ LoadPayloadsDir

\* candidates = choose_candidates(pdb, v, limit=count)
ChooseCandidates ==
  /\ global_db # 0
  /\ selection.state = "idle"
  /\ \E vuln \in Vulns, limit \in 1..MaxLimit :
       selection' = [state |-> "returned", vuln |-> vuln, limit |-> limit,
                     result |-> choose_candidates(heap[global_db].entries, vuln, limit)]
  /\ UNCHANGED <<payloadDir, catalogs, heap, global_db, rendering, parsing, returned>>

NextSelect == InjectorLoad \/ ChooseCandidates

SpecSelect == Init /\ [][NextSelect]_vars

\* -------------------------------------------------------- PayloadDB.render

\* Enumerated templates and contexts: every concatenation of at most
\* MaxPieces pieces (a bracket, a name, a placeholder), under every context
\* over the two names.
TemplatePieces == {<<"[">>, <<"]">>, <<"A">>, <<"[", "A", "]">>, <<"[", "B", "]">>}

RECURSIVE Concat(_)
Concat(parts) == IF parts = <<>> THEN <<>> ELSE parts[1] \o Concat(Tail(parts))

Templates == {Concat(parts) : parts \in BoundedSeq(TemplatePieces, MaxPieces)}
ContextValues == {IntVal(7), StrVal(<<"B">>), StrVal(<<"[", "A", "]">>)}
ContextKeys == {<<"A">>, <<"B">>}

Pair(k, v) == [k |-> k, v |-> v]

Contexts ==
  {<<>>}
  \cup {<<Pair(k, v)>> : k \in ContextKeys, v \in ContextValues}
  \cup {<<Pair(k1, v1), Pair(k2, v2)>> :
          <<k1, k2>> \in {kk \in ContextKeys \X ContextKeys : kk[1] # kk[2]},
          <<v1, v2>> \in ContextValues \X ContextValues}

\* Templates and contexts of the documentation, with the random placeholders
\* and line breaks
ExampleCalls ==
  { <<<<"[", "Q", "U", "E", "R", "Y", "]", " ", "A", "N", "D", " ", "[", "R", "A", "N", "D", "N", "U", "M", "]", "=", "[", "R", "A", "N", "D", "N", "U", "M", "]">>, <<Pair(<<"Q", "U", "E", "R", "Y">>, StrVal(<<"S", "E", "L", "E", "C", "T", " ", "1">>))>> >>,
    <<<<"[", "R", "A", "N", "D", "N", "U", "M", "]", "[", "R", "A", "N", "D", "N", "U", "M", "]">>, <<>> >>,
    <<<<"[", "A", "]">>, <<Pair(<<"A">>, StrVal(<<"[", "R", "A", "N", "D", "N", "U", "M", "]">>))>> >>,
    <<<<"[", "R", "A", "N", "D", "N", "U", "M", "]", " ", "[", "R", "A", "N", "D", "S", "T", "R", "]">>, <<Pair(RANDNUM, IntVal(4242))>> >>,
    <<<<"[", "R", "A", "N", "D", "N", "U", "M", "]", "=", "[", "R", "A", "N", "D", "S", "T", "R", "]">>, <<Pair(RANDSTR, StrVal(<<"r", "n", "d", "s", "t", "r">>))>> >>,
    <<<<" ", " ", "a", " ", " ", " ", "\n", " ", " ", "b", " ", " ">>, <<>> >>,
    <<<<"a", " ", "\n", "\n", " ", "b", "\n">>, <<>> >>,
    <<<<" ", "[", "A", "]", " ", " ", "[", "B", "]", "\n">>, <<Pair(<<"B">>, StrVal(<<" ">>)), Pair(<<"A">>, StrVal(<<"x", " ", " ", "y">>))>> >>,
    <<<<"a", "\t", "\t", "b", " ", "\t", "[", "S", "L", "E", "E", "P", "T", "I", "M", "E", "]">>, <<Pair(<<"S", "L", "E", "E", "P", "T", "I", "M", "E">>, IntVal(2))>> >> }

RenderCalls == (Templates \X Contexts) \cup ExampleCalls

InitRender ==
  /\ payloadDir = NoDirectory
  /\ catalogs = <<>>
  /\ returned = NoCall
  /\ heap = <<>>
  /\ global_db = 0
  /\ selection = IdleSelection
  /\ parsing = IdleParsing
  /\ \E call \in RenderCalls :
       rendering = [state |-> "called", template |-> call[1], context |-> call[2],
                    out |-> <<>>, randnum |-> 0]

\* pdb.render(template, context); random.randint and uuid.uuid4 are called
\* only where the placeholder is left and the context lacks the key
Render ==
  /\ rendering.state = "called"
  /\ LET template == rendering.template
         ctx == rendering.context
         afterCtx == substituteContext(template, ctx)
         drawsNum == template # <<>> /\ needsRandnum(afterCtx, ctx)
     IN  \E n \in IF drawsNum THEN randint(1000, 9999) ELSE {0} :
           \E h \in IF template # <<>> /\ needsRandstr(fillRandnum(afterCtx, ctx, n), ctx)
                    THEN uuid4hex8 ELSE {<<>>} :
             rendering' = [rendering EXCEPT !.state = "returned",
                                            !.out = render(template, ctx, n, h),
                                            !.randnum = n]
  /\ UNCHANGED <<payloadDir, catalogs, heap, global_db, selection, parsing, returned>>

NextRender == Render

SpecRender == InitRender /\ [][NextRender]_vars

\* ------------------------------------------ one file through both parsers

ParseVectors == {None, Some(<<" ", " ">>), Some(<<" ", "U", "N", "I", "O", "N", " ", "A", "L", "L", " ">>), Some(<<";", "S", "E", "L", "E", "C", "T", " ", "1">>), Some(<<"1">>)}
ParsePayloads == {None, Some(<<"s", "l", "e", "e", "p", "(", "5", ")">>), Some(<<"C", "A", "S", "T", "(", "1">>)}
ParseEngines == {None, Some(<<" ">>), Some(<<"M", "y", "S", "Q", "L">>)}
ParseRisks ==
  {None, Some(<<"0">>), Some(<<"2">>), Some(<<"3">>), Some(<<"4">>), Some(<<"5">>), Some(<<"1", "2">>),
   Some(<<"x">>), Some(<<"-", "1">>), Some(<<" ", "3">>)}

ParseTests ==
  {TestElement(None, v, p, None, None, None, d, None, r, r) :
     v \in ParseVectors, p \in ParsePayloads, d \in ParseEngines, r \in ParseRisks}

ParseFiles == {MalformedFile, XmlFile(<<>>)} \cup {XmlFile(<<t>>) : t \in ParseTests}

InitParse ==
  /\ payloadDir = NoDirectory
  /\ catalogs = <<>>
  /\ returned = NoCall
  /\ heap = <<>>
  /\ global_db = 0
  /\ selection = IdleSelection
  /\ rendering = IdleRendering
  /\ \E file \in ParseFiles, fname \in FileNames :
       parsing = [state |-> "called", file |-> file, fname |-> fname, entries |-> <<>>]

\* parse_xml_file(path, fname.replace(".xml", ""))
ParseXmlFile ==
  /\ parsing.state = "called"
  /\ parsing' = [parsing EXCEPT
       !.state = "built",
       !.entries = parse_xml_file(parsing.file, parsing.fname, typeOfFile(parsing.fname),
                                  <<"build", 1>>, 0)]
  /\ UNCHANGED <<payloadDir, catalogs, heap, global_db, selection, rendering, returned>>

\* PayloadDB._parse_xml(fpath, fname.replace(".xml", ""))
ParseXml ==
  /\ parsing.state = "called"
  /\ parsing' = [parsing EXCEPT
       !.state = "loaded",
       !.entries = parseXml(parsing.file, parsing.fname, typeOfFile(parsing.fname),
                            <<"load", 1>>, 0)]
  /\ UNCHANGED <<payloadDir, catalogs, heap, global_db, selection, rendering, returned>>

NextParse == ParseXmlFile \/ ParseXml

SpecParse == InitParse /\ [][NextParse]_vars

\* ------------------------------- calls on PayloadDB objects and the module

\* payload directories of the processes that make the calls
CallDirs ==
  { NoDirectory,
    [exists |-> TRUE, files |-> <<>>],
    [exists |-> TRUE, files |-> (<<"Z", ".", "x", "m", "l">> :> XmlFile(<<SleepTest, UnionTest>>))],
    [exists |-> TRUE,
     files |-> (boolean_blind \o xml :> XmlFile(<<UnionTest>>)) @@ (<<"Z", ".", "x", "m", "l">> :> TruncatedFile)] }

InitCalls ==
  /\ payloadDir \in CallDirs
  /\ catalogs = <<>>
  /\ returned = NoCall
  /\ heap = <<>>
  /\ global_db = 0
  /\ selection = IdleSelection
  /\ rendering = IdleRendering
  /\ parsing = IdleParsing

Call(op, obj, args, value) == [op |-> op, obj |-> obj, args |-> args, value |-> value]

\* what a call leaves alone when it assigns to no attribute of any object
NoEffect == UNCHANGED <<payloadDir, catalogs, heap, global_db, selection, rendering, parsing>>

\* load_payloads(payload_dir=d)
CallLoadPayloadsDir ==
  /\ NewPayloadDB
  /\ returned' = Call("load_payloads", global_db', <<"payload_dir">>, <<>>)
  /\ UNCHANGED <<catalogs, selection, rendering, parsing>>

\* _ensure_db(), and load_payloads() without a directory
EnsureDb == IF global_db = 0 THEN NewPayloadDB ELSE UNCHANGED <<heap, global_db, payloadDir>>

\* load_payloads()
CallLoadPayloads ==
  /\ EnsureDb
  /\ returned' = Call("load_payloads", global_db', <<>>, <<>>)
  /\ UNCHANGED <<catalogs, selection, rendering, parsing>>

\* pdb.load() on a constructed object
CallLoad ==
  \E i \in 1..Len(heap) :
    /\ heap' = [heap EXCEPT ![i] = load(heap[i], payloadDir.files, <<"load", i>>)]
    /\ payloadDir' = IF heap[i].loaded THEN payloadDir ELSE [payloadDir EXCEPT !.exists = TRUE]
    /\ returned' = Call("load", i, <<>>, <<>>)
    /\ UNCHANGED <<catalogs, global_db, selection, rendering, parsing>>

\* pdb.all()
CallAll ==
  \E i \in 1..Len(heap) :
    /\ returned' = Call("all", i, <<>>, all(heap[i].entries))
    /\ NoEffect

\* pdb.types()
CallTypes ==
  \E i \in 1..Len(heap) :
    /\ returned' = Call("types", i, <<>>, types(heap[i].entries))
    /\ NoEffect

\* pdb.dbms_list()
CallDbmsList ==
  \E i \in 1..Len(heap) :
    /\ returned' = Call("dbms_list", i, <<>>, dbms_list(heap[i].entries))
    /\ NoEffect

\* limit arguments: 0 stands for None
Limits == 0..MaxLimit

\* pdb.by_dbms(dbms, limit)
CallByDbms ==
  \E i \in 1..Len(heap), dbms \in {<<"m", "y">>, <<"P", "o", "s", "t", "g", "r", "e", "S", "Q", "L">>}, limit \in Limits :
    /\ returned' = Call("by_dbms", i, <<dbms, limit>>, by_dbms(heap[i].entries, dbms, limit))
    /\ NoEffect

\* pdb.by_technique(technique, limit)
CallByTechnique ==
  \E i \in 1..Len(heap), technique \in {time_blind, <<"Z">>}, limit \in Limits :
    /\ returned' = Call("by_technique", i, <<technique, limit>>,
                        by_technique(heap[i].entries, technique, limit))
    /\ NoEffect

\* pdb.by_tag(tag, limit)
CallByTag ==
  \E i \in 1..Len(heap), tag \in {<<"d", "b", "m", "s", ":">>, <<"r", "e", "s", "p", "o", "n", "s", "e", "_", "t", "i", "m", "e", "_", "m", "a", "r", "k", "e", "r">>}, limit \in Limits :
    /\ returned' = Call("by_tag", i, <<tag, limit>>, by_tag(heap[i].entries, tag, limit))
    /\ NoEffect

\* pdb.get(entry_id), with an id of this object's load and with one of none
CallGet ==
  \E i \in 1..Len(heap) :
    \E entry_id \in {uuid4(<<"load", i>>, 1), uuid4(<<"load", 0>>, 1)} :
      /\ returned' = Call("get", i, <<entry_id>>, get(heap[i].entries, entry_id))
      /\ NoEffect

\* pdb.sample(technique, dbms)
CallSample ==
  \E i \in 1..Len(heap), technique \in {None, Some(union_query)},
     dbms \in {None, Some(<<"p", "o", "s", "t", "g", "r", "e", "s">>)} :
    /\ returned' = Call("sample", i, <<technique, dbms>>,
                        sample(heap[i].entries, technique, dbms))
    /\ NoEffect

\* templates and contexts of the render calls, none with a random placeholder
RenderSamples ==
  { <<<<"[", "A", "]", " ", " ", "[", "B", "]">>, <<Pair(<<"A">>, IntVal(7))>> >>,
    <<<<" ", "U", "N", "I", "O", "N", " ", "[", "A", "]", " ">>, <<>> >> }

\* pdb.render(template, context)
CallRender ==
  \E i \in 1..Len(heap), call \in RenderSamples :
    LET afterCtx == substituteContext(call[1], call[2])
    IN  \E n \in IF needsRandnum(afterCtx, call[2]) THEN randint(1000, 9999) ELSE {0} :
          \E h \in IF needsRandstr(fillRandnum(afterCtx, call[2], n), call[2])
                   THEN uuid4hex8 ELSE {<<>>} :
            /\ returned' = Call("render", i, call, render(call[1], call[2], n, h))
            /\ NoEffect

\* choose_candidates(pdb, vuln, limit)
CallChooseCandidates ==
  \E i \in 1..Len(heap), vuln \in Vulns, limit \in 1..MaxLimit :
    /\ returned' = Call("choose_candidates", i, <<vuln, limit>>,
                        choose_candidates(heap[i].entries, vuln, limit))
    /\ NoEffect

\* mysql(limit), postgres(limit), mssql(limit), oracle(limit), sqlite(limit)
CallEngineFunction ==
  \E dbms \in {<<"M", "y", "S", "Q", "L">>, <<"P", "o", "s", "t", "g", "r", "e", "S", "Q", "L">>, <<"M", "S", "S", "Q", "L">>, <<"O", "r", "a", "c", "l", "e">>, <<"S", "Q", "L", "i", "t", "e">>}, limit \in Limits :
    /\ EnsureDb
    /\ returned' = Call("by_dbms()", global_db', <<dbms, limit>>,
                        by_dbms(heap'[global_db'].entries, dbms, limit))
    /\ UNCHANGED <<catalogs, selection, rendering, parsing>>

\* timebased(limit), boolean(limit), errorbased(limit), union(limit),
\* stacked(limit), inline(limit)
CallTechniqueFunction ==
  \E technique \in TechniqueKeys(TECH_KEYWORDS), limit \in Limits :
    /\ EnsureDb
    /\ returned' = Call("by_technique()", global_db', <<technique, limit>>,
                        by_technique(heap'[global_db'].entries, technique, limit))
    /\ UNCHANGED <<catalogs, selection, rendering, parsing>>

\* all(limit) of the module
CallAllFunction ==
  \E limit \in Limits :
    /\ EnsureDb
    /\ returned' = Call("all()", global_db', <<limit>>,
                        firstN(all(heap'[global_db'].entries), limit))
    /\ UNCHANGED <<catalogs, selection, rendering, parsing>>

NextCalls ==
  \/ CallLoadPayloadsDir
  \/ CallLoadPayloads
  \/ CallLoad
  \/ CallAll
  \/ CallTypes
  \/ CallDbmsList
  \/ CallByDbms
  \/ CallByTechnique
  \/ CallByTag
  \/ CallGet
  \/ CallSample
  \/ CallRender
  \/ CallChooseCandidates
  \/ CallEngineFunction
  \/ CallTechniqueFunction
  \/ CallAllFunction

SpecCalls == InitCalls /\ [][NextCalls]_vars

\* =================================================================
\* Properties
\* =================================================================

\* the <test> elements one pass over the directory reads, in the order it
\* draws their identifiers
RECURSIVE DrawnTests(_, _)
DrawnTests(files, names) ==
  IF names = <<>> THEN <<>>
  ELSE (IF files[names[1]].wellformed THEN files[names[1]].tests ELSE <<>>)
       \o DrawnTests(files, Tail(names))

ScannedTests == DrawnTests(payloadDir.files, scanOrder(payloadDir.files))

\* the text of an element after trimming is not empty
HasText(o) == o.some /\ strip(o.val) # <<>>
HasContent(test) == HasText(test.vector) \/ HasText(test.payload)

NonEmpty(o) == o.some /\ o.val # <<>>

BucketIds(d) == UNION {Range(d[k]) : k \in DOMAIN d}
IndexIds(index) ==
  BucketIds(index.by_type) \cup BucketIds(index.by_dbms) \cup BucketIds(index.by_tag)

EntriesWithContent(entries) ==
  /\ \A i \in 1..Len(entries) :
       /\ NonEmpty(entries[i].vector) \/ NonEmpty(entries[i].example)
       /\ HasContent(ScannedTests[entries[i].id[3]])
  /\ Len(entries) = Cardinality({n \in 1..Len(ScannedTests) : HasContent(ScannedTests[n])})

\* C1: every definition kept by build_catalog and by PayloadDB has a
\* non-empty vector or a non-empty example; a record with neither is dropped:
\* it is no entry and its identifier is in no index bucket, and every record
\* with one of them is kept.
C1_KeptDefinitionsHaveContent ==
  /\ \A b \in 1..Len(catalogs) :
       /\ EntriesWithContent(catalogs[b].entries)
       /\ \A id \in IndexIds(catalogs[b].index) : HasContent(ScannedTests[id[3]])
  /\ \A h \in 1..Len(heap) : EntriesWithContent(heap[h].entries)

\* a directory with a blank record and a record with a vector in one file,
\* built into a catalog and loaded into a PayloadDB, each with that one entry
C1_Witness ==
  /\ Len(catalogs) >= 1
  /\ global_db # 0
  /\ \E f \in DOMAIN payloadDir.files :
       payloadDir.files[f] = XmlFile(<<BlankTest, UnionTest>>)
  /\ catalogs[1].count = 1
  /\ Len(heap[global_db].entries) = 1

\* C2: in every catalog build_catalog produces, every identifier in a bucket
\* of by_type, by_dbms or by_tag is the id of an entry, and count is the
\* length of entries.
C2_IndexRefersToEntries ==
  \A b \in 1..Len(catalogs) :
    /\ IndexIds(catalogs[b].index)
         \subseteq {catalogs[b].entries[i].id : i \in 1..Len(catalogs[b].entries)}
    /\ catalogs[b].count = Len(catalogs[b].entries)

\* a catalog of two entries, one of them without a vector, with buckets in
\* all three indexes
C2_Witness ==
  \E b \in 1..Len(catalogs) :
    /\ catalogs[b].count = 2
    /\ \E i \in 1..2 : ~NonEmpty(catalogs[b].entries[i].vector)
    /\ BucketIds(catalogs[b].index.by_type) # {}
    /\ BucketIds(catalogs[b].index.by_dbms) # {}
    /\ BucketIds(catalogs[b].index.by_tag) # {}

\* ----------------------------------------------------- candidate selector

\* the catalog the selector reads
Catalog == IF global_db = 0 THEN <<>> ELSE heap[global_db].entries

Take(seq, n) == [i \in 1..(IF n < Len(seq) THEN n ELSE Len(seq)) |-> seq[i]]

\* the engine of e contains hint, letter case ignored
EngineMatches(e, hint) ==
  /\ NonEmpty(e.dbms)
  /\ \E i \in 0..(Len(e.dbms.val) - Len(hint)) :
       \A j \in 1..Len(hint) : lowerChar(e.dbms.val[i + j]) = lowerChar(hint[j])

\* the declared type of e is t, or its inferred techniques contain t
TechniqueMatches(e, t) == e.type = t \/ \E k \in 1..Len(e.inferred) : e.inferred[k] = t

\* the alias table; every other label is boolean-blind
AliasOf(label) ==
  CASE label = <<"b", "o", "o", "l", "e", "a", "n">> -> boolean_blind
    [] label = <<"e", "r", "r", "o", "r">> -> error_based
    [] label = <<"t", "i", "m", "e">> -> time_blind
    [] label = <<"u", "n", "i", "o", "n">> -> union_query
    [] label = <<"s", "t", "a", "c", "k", "e", "d">> -> stacked_queries
    [] label = <<"i", "n", "l", "i", "n", "e">> -> inline_query
    [] OTHER -> boolean_blind

\* the canonical technique of a descriptor: its technique label, else its
\* type label, else "boolean", through the alias table
CanonicalOf(vuln) ==
  AliasOf(IF NonEmpty(vuln.technique) THEN vuln.technique.val
          ELSE IF NonEmpty(vuln.type) THEN vuln.type.val
          ELSE <<"b", "o", "o", "l", "e", "a", "n">>)

\* step 2 and step 3 of the selector for canonical technique t
Step2(vuln, t, limit) ==
  IF NonEmpty(vuln.dbms)
  THEN SelectSeq(Take(SelectSeq(Catalog, LAMBDA e : EngineMatches(e, vuln.dbms.val)), limit),
                 LAMBDA e : TechniqueMatches(e, t))
  ELSE <<>>
Step3(t, limit) == Take(SelectSeq(Catalog, LAMBDA e : TechniqueMatches(e, t)), limit)

Returned == selection.state = "returned"

\* C3: for every catalog, descriptor and limit >= 1 choose_candidates returns
\* a list of at most limit definitions of the catalog, and the empty list
\* when the catalog is empty.
C3_AtMostLimit ==
  Returned =>
    /\ selection.limit >= 1
    /\ Len(selection.result) <= selection.limit
    /\ \A i \in 1..Len(selection.result) : selection.result[i] \in Range(Catalog)
    /\ Catalog = <<>> => selection.result = <<>>

\* a call with limit 1 on a catalog of two definitions
C3_Witness ==
  /\ Returned
  /\ selection.limit = 1
  /\ Len(Catalog) = 2
  /\ Len(selection.result) = 1

\* C4: with an engine in the descriptor, the first limit definitions whose
\* engine contains it (letter case ignored) are filtered by the canonical
\* technique; a non-empty filtered list is the result, so every returned
\* definition matches the engine and the technique.
C4_EngineThenTechnique ==
  (Returned /\ NonEmpty(selection.vuln.dbms)
     /\ Step2(selection.vuln, CanonicalOf(selection.vuln), selection.limit) # <<>>) =>
    /\ selection.result = Step2(selection.vuln, CanonicalOf(selection.vuln), selection.limit)
    /\ \A i \in 1..Len(selection.result) :
         /\ EngineMatches(selection.result[i], selection.vuln.dbms.val)
         /\ TechniqueMatches(selection.result[i], CanonicalOf(selection.vuln))

\* engine "my" against the engine "MySQL": the second definition of the
\* catalog is the one returned
C4_Witness ==
  /\ Returned
  /\ selection.vuln.dbms = Some(<<"m", "y">>)
  /\ Len(Catalog) = 2
  /\ selection.result = <<Catalog[2]>>
  /\ Catalog[2].dbms = Some(<<"M", "y", "S", "Q", "L">>)
  /\ ~EngineMatches(Catalog[1], <<"m", "y">>)

\* C5: when step 2 yields nothing and some definition has the canonical
\* technique as declared type or among its inferred techniques, the result is
\* the first limit such definitions of the whole catalog, in catalog order.
C5_TechniqueOnly ==
  (Returned
     /\ Step2(selection.vuln, CanonicalOf(selection.vuln), selection.limit) = <<>>
     /\ \E i \in 1..Len(Catalog) : TechniqueMatches(Catalog[i], CanonicalOf(selection.vuln))) =>
    selection.result = Step3(CanonicalOf(selection.vuln), selection.limit)

\* an engine is given and the one engine match fetched under limit 1 lacks
\* the technique, which a later definition has by inference only
C5_Witness ==
  /\ Returned
  /\ selection.vuln.dbms = Some(<<"S", "Q", "L">>)
  /\ selection.vuln.technique = Some(<<"u", "n", "i", "o", "n">>)
  /\ selection.limit = 1
  /\ Len(Catalog) = 2
  /\ EngineMatches(Catalog[1], <<"S", "Q", "L">>)
  /\ ~TechniqueMatches(Catalog[1], union_query)
  /\ Catalog[2].type # union_query
  /\ selection.result = <<Catalog[2]>>

\* C6 as stated: an absent technique label is boolean-blind whatever else the
\* descriptor holds, and when steps 2 and 3 yield nothing for that technique
\* the result is the first limit definitions of the catalog.
C6_AbsentLabelIsBoolean ==
  LET t == AliasOf(IF NonEmpty(selection.vuln.technique) THEN selection.vuln.technique.val
                   ELSE <<"b", "o", "o", "l", "e", "a", "n">>)
  IN  (Returned /\ Step2(selection.vuln, t, selection.limit) = <<>>
         /\ Step3(t, selection.limit) = <<>>) =>
        selection.result = Take(Catalog, selection.limit)

\* C6: the label is the descriptor's technique, else its type, else
\* "boolean"; a label outside the alias table is boolean-blind; when steps 2
\* and 3 yield nothing for the canonical technique, the result is the first
\* limit definitions of the catalog in its order, unfiltered.
C6_FallbackToCatalogOrder ==
  (Returned
     /\ Step2(selection.vuln, CanonicalOf(selection.vuln), selection.limit) = <<>>
     /\ Step3(CanonicalOf(selection.vuln), selection.limit) = <<>>) =>
    selection.result = Take(Catalog, selection.limit)

\* an unrecognized label on a catalog of two definitions, neither of them
\* boolean-blind, with limit 1
C6_Witness ==
  /\ Returned
  /\ selection.vuln.technique = Some(<<"b", "o", "g", "u", "s">>)
  /\ selection.limit = 1
  /\ Len(Catalog) = 2
  /\ \A i \in 1..2 : ~TechniqueMatches(Catalog[i], boolean_blind)
  /\ selection.result = <<Catalog[1]>>

\* ------------------------------------------------------- safety classifier

\* the severity of a record: the value of its risk text when that is a
\* string of decimal digits, else unset
SeveritySet(test) == test.risk.some /\ isdigit(test.risk.val)
Severity(test) == int(test.risk.val)

SafetyClass(test) ==
  IF ~SeveritySet(test) THEN <<"n", "o", "n", "-", "d", "e", "s", "t", "r", "u", "c", "t", "i", "v", "e">>
  ELSE IF Severity(test) <= 2 THEN <<"n", "o", "n", "-", "d", "e", "s", "t", "r", "u", "c", "t", "i", "v", "e">>
  ELSE IF Severity(test) <= 4 THEN <<"m", "a", "y", "-", "a", "l", "t", "e", "r", "-", "d", "b">>
  ELSE <<"d", "e", "s", "t", "r", "u", "c", "t", "i", "v", "e">>

\* the classes under the names non-destructive, may-alter-data, destructive
SafetyClassAsStated(test) ==
  IF SafetyClass(test) = <<"m", "a", "y", "-", "a", "l", "t", "e", "r", "-", "d", "b">> THEN <<"m", "a", "y", "-", "a", "l", "t", "e", "r", "-", "d", "a", "t", "a">> ELSE SafetyClass(test)

\* C7 as stated: severity at most 2 gives non-destructive, above 2 and at most
\* 4 gives may-alter-data, above 4 gives destructive, absent or non-integer
\* gives non-destructive.
C7_SafetyAsStated ==
  parsing.state = "built" =>
    \A i \in 1..Len(parsing.entries) :
      parsing.entries[i].safety =
        SafetyClassAsStated(parsing.file.tests[parsing.entries[i].id[3]])

\* C7: the safety class of every built definition is a function of its
\* severity alone: at most 2 non-destructive, above 2 and at most 4
\* may-alter-db, above 4 destructive, and non-destructive for an absent or
\* non-integer severity.
C7_SafetyFromSeverity ==
  parsing.state = "built" =>
    \A i \in 1..Len(parsing.entries) :
      LET e == parsing.entries[i]
          test == parsing.file.tests[e.id[3]]
      IN  /\ e.safety = SafetyClass(test)
          /\ e.risk.some = SeveritySet(test)
          /\ e.risk.some => e.risk.val = Severity(test)

\* a definition of severity 3, between the two boundaries
C7_Witness ==
  /\ parsing.state = "built"
  /\ Len(parsing.entries) = 1
  /\ parsing.entries[1].risk = SomeInt(3)
  /\ parsing.entries[1].safety = <<"m", "a", "y", "-", "a", "l", "t", "e", "r", "-", "d", "b">>

\* ---------------------------------------------------------------- renderer

Rendered == rendering.state = "returned" /\ rendering.template # <<>>

AfterContext == substituteContext(rendering.template, rendering.context)

NoContextPlaceholderLeft ==
  \A k \in Keys(rendering.context) : ~contains(rendering.out, Placeholder(k))

\* C8 as stated: after render, for every context, the output holds no [NAME]
\* for any key NAME of the context.
C8_NoPlaceholderOfContextLeft == Rendered => NoContextPlaceholderLeft

Brackets == {"[", "]"}

\* no context value has a bracket in its string form
BracketFreeValues(ctx) ==
  \A i \in 1..Len(ctx) : Range(strOf(ctx[i].v)) \cap Brackets = {}

\* no context key has a bracket or a whitespace character in it
PlainKeys(ctx) ==
  \A k \in Keys(ctx) : \A i \in 1..Len(k) : k[i] \notin Brackets /\ ~isspace(k[i])

\* no "[" of the template is followed, as the next bracket, by another "["
NoNestedBracket(template) ==
  LET b == SelectSeq(template, LAMBDA c : c \in Brackets)
  IN  \A i \in 1..(Len(b) - 1) : ~(b[i] = "[" /\ b[i + 1] = "[")

\* the value of key k in the context
ValueOf(ctx, k) == strOf(ctx[CHOOSE i \in 1..Len(ctx) : ctx[i].k = k].v)

\* every placeholder of a context key replaced by its value, in one pass over
\* the template
RECURSIVE SubstituteAll(_, _)
SubstituteAll(t, ctx) ==
  IF t = <<>> THEN <<>>
  ELSE IF \E k \in Keys(ctx) : startswith(t, Placeholder(k))
       THEN LET k == CHOOSE k \in Keys(ctx) : startswith(t, Placeholder(k))
            IN  ValueOf(ctx, k) \o SubstituteAll(SubSeq(t, Len(k) + 3, Len(t)), ctx)
       ELSE <<t[1]>> \o SubstituteAll(Tail(t), ctx)

NoRandomPlaceholder(t) ==
  ~contains(t, Placeholder(RANDNUM)) /\ ~contains(t, Placeholder(RANDSTR))

\* C8: when no context key contains a bracket or whitespace, no context value
\* contains a bracket and the brackets of the template are not nested, every
\* [NAME] of a context key NAME is replaced by the string form of its value
\* and the output holds no [NAME] of any context key.
C8_PlaceholdersReplaced ==
  (/\ Rendered
   /\ PlainKeys(rendering.context)
   /\ BracketFreeValues(rendering.context)
   /\ NoNestedBracket(rendering.template)) =>
    /\ NoContextPlaceholderLeft
    /\ NoRandomPlaceholder(AfterContext) =>
         rendering.out = normalizeWhitespace(SubstituteAll(rendering.template, rendering.context))

\* two placeholders of one key and one of another, both keys in the context
C8_Witness ==
  /\ Rendered
  /\ rendering.template = <<"[", "A", "]", "[", "B", "]", "[", "A", "]">>
  /\ rendering.context = <<Pair(<<"B">>, StrVal(<<"B">>)), Pair(<<"A">>, IntVal(7))>>
  /\ rendering.out = <<"7", "B", "7">>

\* ------------------------------------------------------ random placeholders

\* random.randint was called: [RANDNUM] is left after the context
\* substitution and the context has no RANDNUM
DrawsRandnum == Rendered /\ needsRandnum(AfterContext, rendering.context)

\* non-overlapping occurrences of sub in s
RECURSIVE Occurrences(_, _)
Occurrences(s, sub) ==
  IF Len(s) < Len(sub) THEN 0
  ELSE IF SubSeq(s, 1, Len(sub)) = sub
       THEN 1 + Occurrences(SubSeq(s, Len(sub) + 1, Len(s)), sub)
       ELSE Occurrences(Tail(s), sub)

RandnumFilled ==
  /\ ~contains(rendering.out, Placeholder(RANDNUM))
  /\ Occurrences(rendering.out, str(rendering.randnum))
       >= Occurrences(AfterContext, Placeholder(RANDNUM))

\* C9 as stated: the integer that replaces [RANDNUM] is at least 1000 and
\* less than 9999.
C9_RandnumBelow9999 ==
  DrawsRandnum => (1000 <= rendering.randnum /\ rendering.randnum < 9999 /\ RandnumFilled)

\* C9: when the context does not supply RANDNUM, every [RANDNUM] left after
\* the context substitution is replaced by the decimal form of an integer n
\* with 1000 <= n <= 9999, and no [RANDNUM] remains in the output.
C9_RandnumInRange ==
  DrawsRandnum => (1000 <= rendering.randnum /\ rendering.randnum <= 9999 /\ RandnumFilled)

\* the documented template with two [RANDNUM], filled with 9999
C9_Witness ==
  /\ DrawsRandnum
  /\ rendering.template = <<"[", "Q", "U", "E", "R", "Y", "]", " ", "A", "N", "D", " ", "[", "R", "A", "N", "D", "N", "U", "M", "]", "=", "[", "R", "A", "N", "D", "N", "U", "M", "]">>
  /\ rendering.out = <<"S", "E", "L", "E", "C", "T", " ", "1", " ", "A", "N", "D", " ", "9", "9", "9", "9", "=", "9", "9", "9", "9">>

\* ---------------------------------------------------------- whitespace

\* C10: the template "  a   \n  b  " with an empty context renders to "a b".
C10_WhitespaceExample ==
  (Rendered /\ rendering.template = <<" ", " ", "a", " ", " ", " ", "\n", " ", " ", "b", " ", " ">> /\ rendering.context = <<>>) =>
    rendering.out = <<"a", " ", "b">>

\* ------------------------------------------------------------- rebuilds

\* an entry without its identifier
NonIdFields(e) == [f \in DOMAIN e \ {"id"} |-> e[f]]

SameOrderAndFields(c1, c2) ==
  /\ Len(c1.entries) = Len(c2.entries)
  /\ \A i \in 1..Len(c1.entries) : NonIdFields(c1.entries[i]) = NonIdFields(c2.entries[i])

\* the position in entries of the definition an identifier names
PositionOf(c, id) == CHOOSE i \in 1..Len(c.entries) : c.entries[i].id = id

\* an index with every identifier replaced by the position of its definition
Positions(c, d) == [k \in DOMAIN d |-> [j \in 1..Len(d[k]) |-> PositionOf(c, d[k][j])]]
IndexShape(c) ==
  [by_type |-> Positions(c, c.index.by_type),
   by_dbms |-> Positions(c, c.index.by_dbms),
   by_tag |-> Positions(c, c.index.by_tag)]

\* two builds of one directory agree in entry order, in the fields other than
\* id, and in the index once identifiers are read as positions
RebuildsAgreeUpToIds ==
  Len(catalogs) >= 2 =>
    /\ SameOrderAndFields(catalogs[1], catalogs[2])
    /\ IndexShape(catalogs[1]) = IndexShape(catalogs[2])

\* C11: two builds from the same unchanged files have the same entry order,
\* the same non-identifier fields in every entry, and the same buckets (keys,
\* elements, order) in by_type, by_dbms and by_tag.
C11_RebuildsIdentical ==
  Len(catalogs) >= 2 =>
    /\ SameOrderAndFields(catalogs[1], catalogs[2])
    /\ catalogs[1].index = catalogs[2].index

\* ------------------------------------------------------ technique inference

Enumeration ==
  {time_blind, union_query, boolean_blind, error_based, stacked_queries, inline_query}

\* the techniques the rule gives a definition under a signature table: a
\* signature of the technique matches the joined vector and example, or the
\* technique is the declared type, or it is stacked and the declared type
\* contains "stacked"
InferredByRule(e, table) ==
  {k \in Enumeration :
     \/ k \in matchedTechniques(table, joinedContent(e.vector, e.example))
     \/ k = e.type
     \/ k = stacked_queries /\ contains(e.type, <<"s", "t", "a", "c", "k", "e", "d">>)}

FollowsRule(entries, table) ==
  \A i \in 1..Len(entries) : Range(entries[i].inferred) = InferredByRule(entries[i], table)

\* the definitions of PayloadDB._parse_xml follow the rule
LoadedInferredByRule ==
  parsing.state = "loaded" => FollowsRule(parsing.entries, TECH_KEYWORDS)

\* C12: the inferred set of every definition, of parse_xml_file and of
\* PayloadDB._parse_xml, is exactly the set of techniques of the enumeration
\* that the rule gives it, and holds no label outside the enumeration.
C12_InferredByRule ==
  /\ parsing.state = "built" => FollowsRule(parsing.entries, BUILD_TECH_KEYWORDS)
  /\ parsing.state = "loaded" => FollowsRule(parsing.entries, TECH_KEYWORDS)

\* ---------------------------------------------------------- malformed files

\* the file scan order: the six named category files that exist, in their
\* fixed order, then every other *.xml file in sorted name order
NamedFirst(files) ==
  SelectSeq(<<boolean_blind \o xml, error_based \o xml, inline_query \o xml,
              stacked_queries \o xml, time_blind \o xml, union_query \o xml>>,
            LAMBDA f : f \in DOMAIN files)
  \o sorted({f \in DOMAIN files :
               /\ endswith(f, xml)
               /\ f \notin {k \o xml : k \in Enumeration}})

\* the kept records of the well-formed files, over a sequence of file names
RECURSIVE KeptRecords(_, _)
KeptRecords(files, names) ==
  IF names = <<>> THEN <<>>
  ELSE (IF files[names[1]].wellformed
        THEN SelectSeq([k \in 1..Len(files[names[1]].tests) |->
                          [source |-> names[1], test |-> files[names[1]].tests[k]]],
                       LAMBDA r : HasContent(r.test))
        ELSE <<>>)
       \o KeptRecords(files, Tail(names))

TrimmedOrNone(o) == IF o.some /\ o.val # <<>> THEN Some(strip(o.val)) ELSE None

\* the entries are the kept records, one for one and in order
IsConcatenation(entries, records) ==
  /\ Len(entries) = Len(records)
  /\ \A i \in 1..Len(entries) :
       /\ entries[i].source = records[i].source
       /\ entries[i].vector = TrimmedOrNone(records[i].test.vector)
       /\ entries[i].example = TrimmedOrNone(records[i].test.payload)

\* C13: with malformed files in the directory the build and the load do not
\* abort: a malformed file contributes no entry, the files after it are
\* still processed, and entries is the concatenation of the kept records of
\* the well-formed files in file scan order and in record order within a file.
C13_MalformedFilesSkipped ==
  LET records == KeptRecords(payloadDir.files, NamedFirst(payloadDir.files))
  IN  /\ \A b \in 1..Len(catalogs) : IsConcatenation(catalogs[b].entries, records)
      /\ \A h \in 1..Len(heap) : IsConcatenation(heap[h].entries, records)

\* a directory whose first scanned file is cut off after a complete <test> and
\* whose second holds a record: built and loaded, each with that one entry
\* of the second file
C13_Witness ==
  /\ DOMAIN payloadDir.files = {boolean_blind \o xml, <<"Z", ".", "x", "m", "l">>}
  /\ payloadDir.files[boolean_blind \o xml] = TruncatedFile
  /\ payloadDir.files[<<"Z", ".", "x", "m", "l">>] = XmlFile(<<SleepTest>>)
  /\ Len(catalogs) >= 1
  /\ Len(heap) >= 1
  /\ Len(catalogs[1].entries) = 1 /\ catalogs[1].entries[1].source = <<"Z", ".", "x", "m", "l">>
  /\ Len(heap[1].entries) = 1 /\ heap[1].entries[1].source = <<"Z", ".", "x", "m", "l">>

\* ------------------------------------------------------------ by_type buckets

NoDuplicates(seq) == \A i, j \in 1..Len(seq) : i # j => seq[i] # seq[j]

\* C14: in every built catalog no identifier appears more than once within a
\* bucket of by_type, also when the declared type of a definition is one of
\* its inferred techniques.
C14_BucketsDeduplicated ==
  \A b \in 1..Len(catalogs) :
    \A k \in DOMAIN catalogs[b].index.by_type : NoDuplicates(catalogs[b].index.by_type[k])

\* ------------------------------------------------------ entries are read-only

\* C15: once a PayloadDB is constructed, no call of load, all, types,
\* dbms_list, by_dbms, by_technique, by_tag, get, sample, render or
\* choose_candidates changes the length, the order or the content of its
\* entries; a load() after the first neither parses nor appends.
C15_EntriesUnchanged ==
  [][\A i \in 1..Len(heap) :
       /\ i <= Len(heap')
       /\ heap'[i].entries = heap[i].entries]_vars

\* load() was called on a constructed object of two entries, which it still has
C15_Witness ==
  /\ returned.op = "load"
  /\ Len(heap[returned.obj].entries) = 2

\* ------------------------------------------------------ the shared instance

\* C16: across load_payloads calls, with or without a directory, and calls
\* of the convenience functions, the shared instance is created once: once
\* _global_db is set, no call replaces it.
C16_SharedInstanceCreatedOnce ==
  [][global_db # 0 => global_db' = global_db]_vars

====
